---- MODULE Spec2Model ----
(***************************************************************************)
(* Model of the Keycloak -> Descope migration tool (src/src/main.py).      *)
(*                                                                         *)
(* Strings are sequences of one-character strings, so that split, lstrip   *)
(* and startswith are computed as Python computes them.  JSON values whose *)
(* Python type matters are tagged records [k, v].                          *)
(*                                                                         *)
(* Spec      : one or more runs of main() against a destination.           *)
(* SpecCred  : process_credentials applied to bounded credential lists.    *)
(***************************************************************************)
EXTENDS Integers, Sequences, FiniteSets, TLC

VARIABLES
    map_groups_to,   \* self.map_groups_to
    pc,              \* position of main() / of the method it is running
    roles_dst,       \* role names present at the destination
    tenants_dst,     \* tenant ids present at the destination
    attrs_dst,       \* custom attribute names present at the destination
    unique,          \* unique_roles / unique_groups still to iterate
    missing,         \* source entities really absent at the destination when the loop started
    attempted,       \* entities a create call was issued for in the current loop
    createFailed,    \* a create call of the current method has failed
    lastCall,        \* the destination API call made by the latest step (NoCall if none)
    phasesRun,       \* methods main() has entered in this run
    batchIssued,     \* a batch-create call was issued in this run
    users_data,      \* batch_create_users argument (users array of the file)
    user_batch,      \* batch_create_users.user_batch
    disabled_users,  \* batch_create_users.disabled_users not yet deactivated
    num_users,       \* batch_create_users.num_users (may be unbound)
    posted,          \* the batch-create call of the current file has been made
    deactCalls,      \* loginIds deactivate was called with for the current file
    deactBeforePost, \* a deactivate call was made before the batch-create call
    batchResult,     \* how batch_create_users ended for the current file
    tenant_sync,     \* tenants mode: the realm file's group paths, while every call of the run succeeded
    credentials,     \* process_credentials argument (SpecCred)
    hashed_password, \* process_credentials result (SpecCred)
    cpc              \* position of the process_credentials harness (SpecCred)

dstVars   == << roles_dst, tenants_dst, attrs_dst >>
loopVars  == << unique, missing, attempted, createFailed >>
batchVars == << users_data, user_batch, disabled_users, num_users, posted,
                deactCalls, deactBeforePost, batchResult >>
credVars  == << credentials, hashed_password, cpc >>

mainVars == << map_groups_to, pc, lastCall, phasesRun, batchIssued,
               dstVars, loopVars, batchVars, tenant_sync >>

vars == << mainVars, credVars >>

----------------------------------------------------------------------------
(* Bounds *)

MaxSuffix == 3   \* longest text after "pbkdf2" in an algorithm string
MaxCreds  == 2   \* longest credentials list
MaxUsers  == 2   \* most users in one export file

----------------------------------------------------------------------------
(* Python values *)

NoneVal == << "None" >>          \* Python None where a string is expected

Missing == [k |-> "none", v |-> 0]
PyInt(n)  == [k |-> "int", v |-> n]
PyStr(s)  == [k |-> "str", v |-> s]
PyList(l) == [k |-> "list", v |-> l]
PyRaise   == [k |-> "raise", v |-> 0]

DigitChars == << "0", "1", "2", "3", "4", "5", "6", "7", "8", "9" >>

IsDigit(c) == \E d \in 1..10 : DigitChars[d] = c

DigitVal(c) == (CHOOSE d \in 1..10 : DigitChars[d] = c) - 1

RECURSIVE ParseDigits(_)
ParseDigits(s) ==
    IF s = << >> THEN 0
    ELSE 10 * ParseDigits(SubSeq(s, 1, Len(s) - 1)) + DigitVal(s[Len(s)])

\* x[0]
Index0(x) ==
    CASE x.k = "list" -> IF x.v = << >> THEN PyRaise ELSE Head(x.v)
      [] x.k = "str"  -> IF x.v = << >> THEN PyRaise ELSE PyStr(<< Head(x.v) >>)
      [] OTHER        -> PyRaise

\* int(x)
IntOf(x) ==
    CASE x.k = "int" -> x
      [] x.k = "str" -> IF x.v # << >> /\ \A i \in 1..Len(x.v) : IsDigit(x.v[i])
                        THEN PyInt(ParseDigits(x.v))
                        ELSE PyRaise
      [] OTHER       -> PyRaise

\* d.get(key, default) for a key whose value is x when present
GetOr(x, default) == IF x = Missing THEN default ELSE x

StartsWith(s, p) == Len(s) >= Len(p) /\ SubSeq(s, 1, Len(p)) = p

\* s.split("-")
RECURSIVE Split(_)
Split(s) ==
    IF s = << >> THEN << << >> >>
    ELSE IF Head(s) = "-" THEN << << >> >> \o Split(Tail(s))
    ELSE LET r == Split(Tail(s)) IN << << Head(s) >> \o Head(r) >> \o Tail(r)

\* s.lstrip("/")
RECURSIVE LStrip(_)
LStrip(s) ==
    IF s # << >> /\ Head(s) = "/" THEN LStrip(Tail(s)) ELSE s

----------------------------------------------------------------------------
(* Credential Translator: process_credentials *)

Pbkdf2Str == << "p", "b", "k", "d", "f", "2" >>
Argon2Str == << "a", "r", "g", "o", "n", "2" >>
BcryptStr == << "b", "c", "r", "y", "p", "t" >>
Sha1Str   == << "s", "h", "a", "1" >>
EmptyStr  == << >>

DefaultIterations == 3
DefaultMemory == PyList(<< PyStr(<< "7", "1", "6", "8" >>) >>)
DefaultParallelism == PyList(<< PyStr(<< "1" >>) >>)

NoCredential == [kind |-> "none", hash |-> Missing, salt |-> Missing,
                 iterations |-> Missing, type |-> EmptyStr,
                 memory |-> Missing, threads |-> Missing]

CredentialError == [NoCredential EXCEPT !.kind = "raise"]

\* variant: parts[0] is taken instead of parts[1]
AlgType_FirstPart(alg) ==
    LET parts == Split(alg)
    IN  IF Len(parts) > 1 THEN parts[1] ELSE Sha1Str

\* parts = alg.split("-"); parts[1] if len(parts) > 1 else "sha1"
AlgType(alg) ==
    LET parts == Split(alg)
    IN  IF Len(parts) > 1 THEN parts[2] ELSE Sha1Str

Pbkdf2Descriptor(c) ==
    [NoCredential EXCEPT
        !.kind = "pbkdf2",
        !.hash = GetOr(c.value, PyStr(EmptyStr)),
        !.salt = GetOr(c.salt, PyStr(EmptyStr)),
        !.iterations = c.hashIterations,
        !.type = AlgType(c.algorithm)]

\* variant: the defaults of memory and parallelism are plain strings
Argon2Descriptor_PlainDefault(c) ==
    LET mem == IntOf(Index0(GetOr(c.memory, Head(DefaultMemory.v))))
        thr == IntOf(Index0(GetOr(c.parallelism, Head(DefaultParallelism.v))))
    IN  IF mem = PyRaise \/ thr = PyRaise THEN CredentialError
        ELSE [NoCredential EXCEPT
                !.kind = "argon2",
                !.hash = GetOr(c.value, PyStr(EmptyStr)),
                !.salt = GetOr(c.salt, PyStr(EmptyStr)),
                !.iterations = GetOr(c.hashIterations, PyInt(DefaultIterations)),
                !.memory = mem,
                !.threads = thr]

Argon2Descriptor(c) ==
    LET mem == IntOf(Index0(GetOr(c.memory, DefaultMemory)))
        thr == IntOf(Index0(GetOr(c.parallelism, DefaultParallelism)))
    IN  IF mem = PyRaise \/ thr = PyRaise THEN CredentialError
        ELSE [NoCredential EXCEPT
                !.kind = "argon2",
                !.hash = GetOr(c.value, PyStr(EmptyStr)),
                !.salt = GetOr(c.salt, PyStr(EmptyStr)),
                !.iterations = GetOr(c.hashIterations, PyInt(DefaultIterations)),
                !.memory = mem,
                !.threads = thr]

\* variant: the scan ends at the first password entry whatever its algorithm
RECURSIVE process_credentials_StopAtFirst(_)
process_credentials_StopAtFirst(creds) ==
    IF creds = << >> THEN NoCredential
    ELSE LET c == Head(creds) IN
         IF c.type = "password"
         THEN IF c.algorithm = NoneVal THEN CredentialError
              ELSE IF StartsWith(c.algorithm, Pbkdf2Str) THEN Pbkdf2Descriptor(c)
              ELSE IF c.algorithm = Argon2Str THEN Argon2Descriptor(c)
              ELSE NoCredential
         ELSE process_credentials_StopAtFirst(Tail(creds))

RECURSIVE process_credentials(_)
process_credentials(creds) ==
    IF creds = << >> THEN NoCredential
    ELSE LET c == Head(creds) IN
         IF c.type = "password"
         THEN IF c.algorithm = NoneVal THEN CredentialError
              ELSE IF StartsWith(c.algorithm, Pbkdf2Str) THEN Pbkdf2Descriptor(c)
              ELSE IF c.algorithm = Argon2Str THEN Argon2Descriptor(c)
              ELSE process_credentials(Tail(creds))
         ELSE process_credentials(Tail(creds))

----------------------------------------------------------------------------
(* Credential inputs *)

SeqsUpTo(S, n) == UNION { [1..m -> S] : m \in 0..n }

Suffixes == SeqsUpTo({"-", "s"}, MaxSuffix)

HashH == PyStr(<< "h" >>)
SaltS == PyStr(<< "s" >>)

Cred(t, a, val, it, mem, par) ==
    [type |-> t, algorithm |-> a, value |-> val, salt |-> SaltS,
     hashIterations |-> it, memory |-> mem, parallelism |-> par]

Pbkdf2Creds ==
    { Cred("password", Pbkdf2Str \o suf, val, it, Missing, Missing) :
        suf \in Suffixes, val \in {Missing, HashH}, it \in {PyInt(5)} }

Str16 == PyStr(<< "1", "6" >>)
Str2  == PyStr(<< "2" >>)

Argon2Creds ==
    { Cred("password", Argon2Str, HashH, it, mem, par) :
        it  \in {Missing, PyInt(5), PyList(<< PyInt(5) >>)},
        mem \in {Missing, PyList(<< Str16 >>), Str16, PyInt(16)},
        par \in {Missing, PyList(<< Str2 >>), Str2} }

OtherCreds ==
    { Cred("password", BcryptStr, HashH, PyInt(10), Missing, Missing),
      Cred("password", NoneVal, HashH, Missing, Missing, Missing),
      Cred("otp", NoneVal, HashH, Missing, Missing, Missing) }

CredPool == Pbkdf2Creds \cup Argon2Creds \cup OtherCreds

CredLists == SeqsUpTo(CredPool, MaxCreds)

----------------------------------------------------------------------------
(* Source (Keycloak export) and destination (Descope) name universes *)

RoleA  == << "a" >>
RoleB  == << "b" >>
GroupG == << "g" >>
AttrX  == << "x" >>
AttrY  == << "y" >>

KcRoleNames  == {RoleA, RoleB}     \* role names a realm file may hold
KcGroupNames == {RoleA, GroupG}    \* top-level group names a realm file may hold
KcAttrNames  == {AttrX, AttrY}     \* custom attribute names a realm file may hold

Modes == {"tenants", "roles", "none"}

NoCall == [op |-> "none", phase |-> "none", names |-> {}, present |-> FALSE, ok |-> FALSE]

Call(op, phase, names, present, ok) ==
    [op |-> op, phase |-> phase, names |-> names, present |-> present, ok |-> ok]

CreateOps == {"role.create", "tenant.create", "customattribute.create"}

Unbound == [bound |-> FALSE, v |-> 0]
Bound(n) == [bound |-> TRUE, v |-> n]

NoResult      == [kind |-> "pending", n |-> 0]
Returned(n)   == [kind |-> "int", n |-> n]
ReturnedNone  == [kind |-> "None", n |-> 0]
Propagated    == [kind |-> "raise", n |-> 0]

----------------------------------------------------------------------------
(* main(): order of the phases *)

\* variant: the users are uploaded before the custom attributes are created
AfterPhase_UsersFirst(phase, mode) ==
    CASE phase = "create_roles"  -> IF mode \in {"tenants", "roles"}
                                    THEN "create_groups" ELSE "process_users"
      [] phase = "create_groups" -> "process_users"
      [] phase = "process_users" -> "create_attrs"
      [] OTHER                   -> "done"

AfterPhase(phase, mode) ==
    CASE phase = "create_roles"  -> IF mode \in {"tenants", "roles"}
                                    THEN "create_groups" ELSE "create_attrs"
      [] phase = "create_groups" -> "create_attrs"
      [] phase = "create_attrs"  -> "process_users"
      [] OTHER                   -> "done"

----------------------------------------------------------------------------
(* Diff/Create Orchestrator *)

\* get_keycloak_roles / get_keycloak_groups / get_keycloak_custom_attributes:
\* the names of the realm file, [] when reading it raises
GetKeycloak(readOk, names) == IF readOk THEN names ELSE {}

\* get_descope_roles / get_descope_tenants / get_descope_custom_attributes:
\* the names at the destination, [] when the list call raises
GetDescope(listOk, present) == IF listOk THEN present ELSE {}

\* set(keycloak) - set(descope)
UniqueOf(keycloak, descope) == keycloak \ descope

\* variant: the first failed create ends the loop
AfterCreateFailure_Abort(pending, name) == {}

\* except Exception: logging.error(...) -- the loop goes on with the rest
AfterCreateFailure(pending, name) == pending \ {name}

\* the path of a top-level group
TopPath(name) == << "/" >> \o name

\* a subgroup of group "a"
PathAG == << "/", "a", "/", "g" >>

\* the group trees a realm file may hold, as the paths of their groups
GroupTrees ==
    { t \in SUBSET ({ TopPath(n) : n \in KcGroupNames } \cup {PathAG}) :
        PathAG \in t => TopPath(RoleA) \in t }

IsTopLevel(path) == \A i \in 2..Len(path) : path[i] # "/"

\* [group["name"] for group in file_data.get("groups", [])]: the names of
\* the top-level groups; the subGroups of a group are not visited
TopLevelNames(tree) == { LStrip(p) : p \in { q \in tree : IsTopLevel(q) } }

Synced(paths) == [ok |-> TRUE, paths |-> paths]
NotSynced     == [ok |-> FALSE, paths |-> {}]

\* tenant_sync after a destination call of the run that succeeded or failed
NoteCall(sync, mode, ok) == IF mode = "tenants" /\ ~ok THEN NotSynced ELSE sync

\* tenant_sync after get_keycloak_groups returned the groups of the tree
NoteGroups(sync, mode, readOk, tree) ==
    IF mode = "tenants" /\ sync.ok THEN Synced(IF readOk THEN tree ELSE {}) ELSE sync

CreateRolesBegin ==
    /\ pc = "create_roles"
    /\ \E kr \in SUBSET KcRoleNames, readOk \in BOOLEAN, listOk \in BOOLEAN :
         LET keycloak_roles == GetKeycloak(readOk, kr)
             descope_roles  == GetDescope(listOk, roles_dst)
         IN  /\ unique' = UniqueOf(keycloak_roles, descope_roles)
             /\ missing' = keycloak_roles \ roles_dst
             /\ tenant_sync' = NoteCall(tenant_sync, map_groups_to, listOk)
    /\ attempted' = {}
    /\ createFailed' = FALSE
    /\ phasesRun' = phasesRun \cup {"create_roles"}
    /\ lastCall' = NoCall
    /\ pc' = "roles_loop"
    /\ UNCHANGED << map_groups_to, batchIssued, dstVars, batchVars, credVars >>

\* one iteration of "for role_name in unique_roles"
RoleCreateStep ==
    /\ pc = "roles_loop"
    /\ unique # {}
    /\ \E role_name \in unique, apiOk \in BOOLEAN :
         LET present == role_name \in roles_dst
             ok      == apiOk /\ ~present
         IN  /\ lastCall' = Call("role.create", "create_roles", {role_name}, present, ok)
             /\ roles_dst' = IF ok THEN roles_dst \cup {role_name} ELSE roles_dst
             /\ unique' = IF ok THEN unique \ {role_name}
                          ELSE AfterCreateFailure(unique, role_name)
             /\ createFailed' = (createFailed \/ ~ok)
             /\ attempted' = attempted \cup {role_name}
             /\ tenant_sync' = NoteCall(tenant_sync, map_groups_to, ok)
    /\ UNCHANGED << map_groups_to, pc, phasesRun, batchIssued, tenants_dst, attrs_dst,
                    missing, batchVars, credVars >>

\* the method returns and main() goes on
CreateRolesReturn ==
    /\ pc = "roles_loop"
    /\ unique = {}
    /\ pc' = AfterPhase("create_roles", map_groups_to)
    /\ lastCall' = NoCall
    /\ missing' = {}
    /\ attempted' = {}
    /\ createFailed' = FALSE
    /\ UNCHANGED << map_groups_to, tenant_sync, phasesRun, batchIssued, dstVars, unique,
                    batchVars, credVars >>

CreateGroupsBegin ==
    /\ pc = "create_groups"
    /\ phasesRun' = phasesRun \cup {"create_groups"}
    /\ attempted' = {}
    /\ createFailed' = FALSE
    /\ lastCall' = NoCall
    /\ \E tree \in GroupTrees, readOk \in BOOLEAN, listOk \in BOOLEAN :
         LET keycloak_groups == GetKeycloak(readOk, TopLevelNames(tree))
         IN  /\ tenant_sync' = NoteCall(NoteGroups(tenant_sync, map_groups_to, readOk, tree),
                                        map_groups_to, listOk)
             /\ IF map_groups_to = "tenants"
                THEN /\ unique' = UniqueOf(keycloak_groups, GetDescope(listOk, tenants_dst))
                     /\ missing' = keycloak_groups \ tenants_dst
                     /\ pc' = "groups_loop"
                ELSE IF map_groups_to = "roles"
                THEN /\ unique' = UniqueOf(keycloak_groups, GetDescope(listOk, roles_dst))
                     /\ missing' = keycloak_groups \ roles_dst
                     /\ pc' = "groups_loop"
                ELSE /\ unique' = {}
                     /\ missing' = {}
                     /\ pc' = AfterPhase("create_groups", map_groups_to)
    /\ UNCHANGED << map_groups_to, batchIssued, dstVars, batchVars, credVars >>

\* which create call one iteration of "for group_name in unique_groups" makes
GroupCreateOp(mode) ==
    IF mode = "tenants" THEN "tenant.create"
    ELSE IF mode = "roles" THEN "role.create"
    ELSE "none"

GroupCreateStep ==
    /\ pc = "groups_loop"
    /\ unique # {}
    /\ \E group_name \in unique, apiOk \in BOOLEAN :
         LET op      == GroupCreateOp(map_groups_to)
             present == CASE op = "tenant.create" -> group_name \in tenants_dst
                          [] op = "role.create"   -> group_name \in roles_dst
                          [] OTHER                -> FALSE
             ok      == IF op = "none" THEN TRUE ELSE apiOk /\ ~present
         IN  /\ lastCall' = IF op = "none" THEN NoCall
                            ELSE Call(op, "create_groups", {group_name}, present, ok)
             /\ tenants_dst' = IF ok /\ op = "tenant.create"
                               THEN tenants_dst \cup {group_name} ELSE tenants_dst
             /\ roles_dst' = IF ok /\ op = "role.create"
                             THEN roles_dst \cup {group_name} ELSE roles_dst
             /\ unique' = IF ok THEN unique \ {group_name}
                          ELSE AfterCreateFailure(unique, group_name)
             /\ createFailed' = (createFailed \/ ~ok)
             /\ tenant_sync' = NoteCall(tenant_sync, map_groups_to, ok)
             /\ attempted' = IF op = "none" THEN attempted
                             ELSE attempted \cup {group_name}
    /\ UNCHANGED << map_groups_to, pc, phasesRun, batchIssued, attrs_dst, missing,
                    batchVars, credVars >>

CreateGroupsReturn ==
    /\ pc = "groups_loop"
    /\ unique = {}
    /\ pc' = AfterPhase("create_groups", map_groups_to)
    /\ lastCall' = NoCall
    /\ missing' = {}
    /\ attempted' = {}
    /\ createFailed' = FALSE
    /\ UNCHANGED << map_groups_to, tenant_sync, phasesRun, batchIssued, dstVars, unique,
                    batchVars, credVars >>

\* create_custom_attributes_in_descope: one POST carrying every missing attribute
CreateCustomAttributes ==
    /\ pc = "create_attrs"
    /\ phasesRun' = phasesRun \cup {"create_attrs"}
    /\ \E ka \in SUBSET KcAttrNames, readOk \in BOOLEAN, listOk \in BOOLEAN,
          status \in {"200", "409", "500", "exception"} :
         LET keycloak_attrs == GetKeycloak(readOk, ka)
             descope_attrs  == GetDescope(listOk, attrs_dst)
             unique_attrs   == UniqueOf(keycloak_attrs, descope_attrs)
             present        == unique_attrs \cap attrs_dst # {}
             ok             == status = "200"
         IN  /\ missing' = keycloak_attrs \ attrs_dst
             /\ unique' = {}
             /\ attempted' = unique_attrs
             /\ IF unique_attrs = {}
                THEN /\ status = "200"
                     /\ lastCall' = NoCall
                     /\ createFailed' = FALSE
                     /\ attrs_dst' = attrs_dst
                     /\ tenant_sync' = NoteCall(tenant_sync, map_groups_to, listOk)
                ELSE /\ (present => status # "200")
                     /\ lastCall' = Call("customattribute.create", "create_attrs",
                                         unique_attrs, present, ok)
                     /\ attrs_dst' = IF ok THEN attrs_dst \cup unique_attrs ELSE attrs_dst
                     /\ createFailed' = ~ok
                     /\ tenant_sync' = NoteCall(tenant_sync, map_groups_to, listOk /\ ok)
    /\ pc' = "attrs_return"
    /\ UNCHANGED << map_groups_to, batchIssued, roles_dst, tenants_dst,
                    batchVars, credVars >>

CreateCustomAttributesReturn ==
    /\ pc = "attrs_return"
    /\ pc' = AfterPhase("create_attrs", map_groups_to)
    /\ lastCall' = NoCall
    /\ missing' = {}
    /\ attempted' = {}
    /\ createFailed' = FALSE
    /\ UNCHANGED << map_groups_to, tenant_sync, phasesRun, batchIssued, dstVars, unique,
                    batchVars, credVars >>

----------------------------------------------------------------------------
(* User export files *)

PathA == << "/", "a" >>

IdChars == << "1", "2", "3", "4" >>

UserName(i)  == << "u", IdChars[i] >>
UserEmail(i) == << "e", IdChars[i] >>

PasswordOk  == Cred("password", Pbkdf2Str, HashH, PyInt(5), Missing, Missing)
PasswordBad == Cred("password", NoneVal, HashH, Missing, Missing, Missing)

\* the i-th user object of an export file; a user whose password entry has
\* no algorithm is sampled with a username and without groups, a member of
\* the subgroup as an enabled user with a username and a good password
UserChoices(i) ==
    { u \in [username : {NoneVal, UserName(i)}, email : {UserEmail(i)},
             enabled : BOOLEAN, groups : {<< >>, << PathA >>, << PathAG >>},
             realmRoles : {<< RoleA >>}, clientRoles : {<< << RoleB >> >>},
             credentials : {<< PasswordOk >>, << PasswordBad >>}] :
        /\ u.credentials = << PasswordBad >> =>
              (u.username # NoneVal /\ u.groups = << >>)
        /\ u.groups = << PathAG >> =>
              (u.username # NoneVal /\ u.enabled /\ u.credentials = << PasswordOk >>) }

UsersArrays ==
    UNION { { f \in [1..m -> UNION { UserChoices(i) : i \in 1..m }] :
                \A i \in 1..m : f[i] \in UserChoices(i) } : m \in 0..MaxUsers }

----------------------------------------------------------------------------
(* User Batch Uploader: batch_create_users *)

Truthy(s) == s # NoneVal /\ s # EmptyStr

RECURSIVE Flatten(_)
Flatten(ll) == IF ll = << >> THEN << >> ELSE Head(ll) \o Flatten(Tail(ll))

Stripped(groups) == [i \in 1..Len(groups) |-> LStrip(groups[i])]

\* login_id = username if username else email
LoginId(u) == IF Truthy(u.username) THEN u.username ELSE u.email

\* variant: the email is always an additional identifier
AdditionalIdentifiers_Always(u) == << u.email >>

\* additional_identifiers = [email] if username else []
AdditionalIdentifiers(u) == IF Truthy(u.username) THEN << u.email >> ELSE << >>

\* variant: the group names become role names whenever groups are mapped
UserRoles_AnyMapping(u, mode) ==
    u.realmRoles \o Flatten(u.clientRoles)
        \o (IF mode # "none" THEN Stripped(u.groups) ELSE << >>)

\* realmRoles + every clientRoles list (+ the stripped group paths for "roles")
UserRoles(u, mode) ==
    u.realmRoles \o Flatten(u.clientRoles)
        \o (IF mode = "roles" THEN Stripped(u.groups) ELSE << >>)

\* tenant ids of the user: the stripped group paths for "tenants"
UserTenants(u, mode) ==
    IF mode = "tenants" THEN Stripped(u.groups) ELSE << >>

\* the dict appended to user_batch; userTenants is a key only when non-empty
BuildUser(u, mode) ==
    [loginId |-> LoginId(u),
     email |-> u.email,
     additionalIdentifiers |-> AdditionalIdentifiers(u),
     hashedPassword |-> process_credentials(u.credentials),
     roleNames |-> UserRoles(u, mode),
     has_userTenants |-> Len(UserTenants(u, mode)) > 0,
     userTenants |-> UserTenants(u, mode)]

IsDisabled(u) == u.enabled = FALSE

\* the "for user_data in users_data" loop: the batch and the disabled loginIds
\* built so far, and whether process_credentials raised
RECURSIVE BuildBatch(_, _)
BuildBatch(users, mode) ==
    IF users = << >> THEN [batch |-> << >>, disabled |-> << >>, raised |-> FALSE]
    ELSE LET u    == Head(users)
             dis  == IF IsDisabled(u) THEN << LoginId(u) >> ELSE << >>
             user == BuildUser(u, mode)
         IN  IF user.hashedPassword.kind = "raise"
             THEN [batch |-> << >>, disabled |-> dis, raised |-> TRUE]
             ELSE LET rest == BuildBatch(Tail(users), mode)
                  IN  [batch |-> << user >> \o rest.batch,
                       disabled |-> dis \o rest.disabled,
                       raised |-> rest.raised]

\* except Exception as e: logging.error(f"Failed to create {num_users} users ...")
\* with num_users unbound the handler itself raises; otherwise the method
\* falls off its end and returns None
ExceptHandler(nu) == IF nu.bound THEN ReturnedNone ELSE Propagated

\* process_users up to its file loop; os.listdir may raise
ProcessUsersBegin ==
    /\ pc = "process_users"
    /\ phasesRun' = phasesRun \cup {"process_users"}
    /\ lastCall' = NoCall
    /\ \E listdirOk \in BOOLEAN : pc' = IF listdirOk THEN "next_file" ELSE "done"
    /\ UNCHANGED << map_groups_to, tenant_sync, batchIssued, dstVars, loopVars, batchVars, credVars >>

\* one iteration of the file loop up to the call of batch_create_users
ReadFile ==
    /\ pc = "next_file"
    /\ lastCall' = NoCall
    /\ \E outcome \in {"users", "invalid", "raise"} :
         CASE outcome = "users" ->
                /\ \E ud \in UsersArrays : users_data' = ud
                /\ pc' = "batch_build"
           [] outcome = "invalid" ->
                /\ pc' = "next_file"
                /\ users_data' = users_data
           [] OTHER ->
                /\ pc' = "done"
                /\ users_data' = users_data
    /\ UNCHANGED << map_groups_to, tenant_sync, phasesRun, batchIssued, dstVars, loopVars,
                    user_batch, disabled_users, num_users, posted, deactCalls,
                    deactBeforePost, batchResult, credVars >>

\* no file left: "Migration complete"
ProcessUsersReturn ==
    /\ pc = "next_file"
    /\ pc' = "done"
    /\ lastCall' = NoCall
    /\ UNCHANGED << map_groups_to, tenant_sync, phasesRun, batchIssued, dstVars, loopVars,
                    batchVars, credVars >>

\* batch_create_users: the loop building user_batch and disabled_users
BatchBuild ==
    /\ pc = "batch_build"
    /\ lastCall' = NoCall
    /\ LET b == BuildBatch(users_data, map_groups_to)
       IN  /\ user_batch' = b.batch
           /\ disabled_users' = b.disabled
           /\ IF b.raised
              THEN /\ batchResult' = ExceptHandler(num_users)
                   /\ pc' = "batch_returned"
              ELSE /\ batchResult' = batchResult
                   /\ pc' = "batch_post"
    /\ UNCHANGED << map_groups_to, tenant_sync, phasesRun, batchIssued, dstVars, loopVars,
                    users_data, num_users, posted, deactCalls, deactBeforePost,
                    credVars >>

\* batch_create_users: requests.post of the batch
BatchPost ==
    /\ pc = "batch_post"
    /\ posted' = TRUE
    /\ batchIssued' = TRUE
    /\ \E status \in {"200", "500", "exception"} :
         /\ lastCall' = Call("user.create.batch", "process_users",
                             { user_batch[i].loginId : i \in 1..Len(user_batch) },
                             FALSE, status = "200")
         /\ tenant_sync' = NoteCall(tenant_sync, map_groups_to, status = "200")
         /\ IF status = "exception"
            THEN /\ batchResult' = ExceptHandler(num_users)
                 /\ pc' = "batch_returned"
            ELSE /\ batchResult' = batchResult
                 /\ pc' = "deactivate_loop"
    /\ UNCHANGED << map_groups_to, phasesRun, dstVars, loopVars, users_data, user_batch,
                    disabled_users, num_users, deactCalls, deactBeforePost, credVars >>

\* one iteration of "for disabled_user in disabled_users"
DeactivateStep ==
    /\ pc = "deactivate_loop"
    /\ disabled_users # << >>
    /\ \E apiOk \in BOOLEAN :
         /\ lastCall' = Call("user.deactivate", "process_users",
                             { Head(disabled_users) }, FALSE, apiOk)
         /\ tenant_sync' = NoteCall(tenant_sync, map_groups_to, apiOk)
         /\ IF apiOk
            THEN /\ batchResult' = batchResult
                 /\ pc' = pc
            ELSE /\ batchResult' = ExceptHandler(num_users)
                 /\ pc' = "batch_returned"
    /\ deactCalls' = Append(deactCalls, Head(disabled_users))
    /\ deactBeforePost' = (deactBeforePost \/ ~posted)
    /\ disabled_users' = Tail(disabled_users)
    /\ UNCHANGED << map_groups_to, phasesRun, batchIssued, dstVars, loopVars,
                    users_data, user_batch, num_users, posted, credVars >>

\* num_users = len(user_batch); ...; return num_users
BatchReturn ==
    /\ pc = "deactivate_loop"
    /\ disabled_users = << >>
    /\ lastCall' = NoCall
    /\ num_users' = Bound(Len(user_batch))
    /\ batchResult' = Returned(Len(user_batch))
    /\ pc' = "batch_returned"
    /\ UNCHANGED << map_groups_to, tenant_sync, phasesRun, batchIssued, dstVars, loopVars,
                    users_data, user_batch, disabled_users, posted, deactCalls,
                    deactBeforePost, credVars >>

\* process_users after the call: user_count += num_users and the next file, or
\* its except clause when the call raised or returned None.  The running
\* total user_count is only printed and is not kept in the model.
AfterBatch ==
    /\ pc = "batch_returned"
    /\ pc' = IF batchResult.kind = "int" THEN "next_file" ELSE "done"
    /\ lastCall' = NoCall
    /\ users_data' = << >>
    /\ user_batch' = << >>
    /\ disabled_users' = << >>
    /\ num_users' = Unbound
    /\ posted' = FALSE
    /\ deactCalls' = << >>
    /\ deactBeforePost' = FALSE
    /\ batchResult' = NoResult
    /\ UNCHANGED << map_groups_to, tenant_sync, phasesRun, batchIssued, dstVars, loopVars, credVars >>

----------------------------------------------------------------------------
(* Runs of main() *)

IdleMain ==
    /\ unique = {}
    /\ missing = {}
    /\ attempted = {}
    /\ createFailed = FALSE
    /\ lastCall = NoCall
    /\ phasesRun = {}
    /\ batchIssued = FALSE
    /\ users_data = << >>
    /\ user_batch = << >>
    /\ disabled_users = << >>
    /\ num_users = Unbound
    /\ posted = FALSE
    /\ deactCalls = << >>
    /\ deactBeforePost = FALSE
    /\ batchResult = NoResult
    /\ tenant_sync = Synced({})

Init ==
    /\ map_groups_to \in Modes
    /\ pc = "create_roles"
    /\ roles_dst \in SUBSET KcRoleNames
    /\ tenants_dst \in SUBSET KcGroupNames
    /\ attrs_dst \in SUBSET {AttrX}
    /\ IdleMain
    /\ credentials = << >>
    /\ hashed_password = NoCredential
    /\ cpc = "idle"

\* the tool is started again on the destination the previous run left
Rerun ==
    /\ pc = "done"
    /\ pc' = "create_roles"
    /\ lastCall' = NoCall
    /\ phasesRun' = {}
    /\ batchIssued' = FALSE
    /\ tenant_sync' = Synced({})
    /\ UNCHANGED << map_groups_to, dstVars, loopVars, batchVars, credVars >>

Next ==
    \/ CreateRolesBegin
    \/ RoleCreateStep
    \/ CreateRolesReturn
    \/ CreateGroupsBegin
    \/ GroupCreateStep
    \/ CreateGroupsReturn
    \/ CreateCustomAttributes
    \/ CreateCustomAttributesReturn
    \/ ProcessUsersBegin
    \/ ReadFile
    \/ ProcessUsersReturn
    \/ BatchBuild
    \/ BatchPost
    \/ DeactivateStep
    \/ BatchReturn
    \/ AfterBatch
    \/ Rerun

Spec == Init /\ [][Next]_vars

----------------------------------------------------------------------------
(* process_credentials on its own *)

InitCred ==
    /\ map_groups_to = "none"
    /\ pc = "idle"
    /\ roles_dst = {}
    /\ tenants_dst = {}
    /\ attrs_dst = {}
    /\ IdleMain
    /\ credentials \in CredLists
    /\ hashed_password = NoCredential
    /\ cpc = "call"

ProcessCredentials ==
    /\ cpc = "call"
    /\ hashed_password' = process_credentials(credentials)
    /\ cpc' = "returned"
    /\ UNCHANGED << credentials, mainVars >>

NextCred == ProcessCredentials

SpecCred == InitCred /\ [][NextCred]_vars

----------------------------------------------------------------------------
(* Properties *)
(* Under Spec, lastCall is the destination call the latest step made, and  *)
(* users_data[i] is the source of user_batch[i].                           *)

BaseRoles(u) == u.realmRoles \o Flatten(u.clientRoles)

Count(seq, x) == Cardinality({ i \in 1..Len(seq) : seq[i] = x })

LoopFinished ==
    \/ pc \in {"roles_loop", "groups_loop"} /\ unique = {}
    \/ pc = "attrs_return"

\* C1: no create call (role, tenant, custom attribute) is issued for a name
\* that is present at the destination when the call is made; as the
\* destination keeps what a run created, this covers a re-run as well.
C1_NoCreateForPresent ==
    lastCall.op \in CreateOps => ~lastCall.present

\* C2: when batch_create_users ends, every user of the file with
\* enabled == false is in the batch that was posted and has had exactly one
\* deactivate call, made after the batch-create call; no deactivate call was
\* made before the batch-create call or for a user that is not disabled.
C2_DisabledDeactivatedOnce ==
    pc = "batch_returned" =>
        /\ \A i \in 1..Len(users_data) :
              IsDisabled(users_data[i]) =>
                  /\ posted
                  /\ \E j \in 1..Len(user_batch) :
                        user_batch[j].loginId = LoginId(users_data[i])
                  /\ Count(deactCalls, LoginId(users_data[i])) = 1
        /\ ~deactBeforePost
        /\ \A k \in 1..Len(deactCalls) :
              \E i \in 1..Len(users_data) :
                  IsDisabled(users_data[i]) /\ LoginId(users_data[i]) = deactCalls[k]

\* C3: group names go to tenants or to roles, never both.  create_groups
\* issues a role create only in mode roles and a tenant create only in mode
\* tenants; a built user carries group names in roleNames only in mode roles
\* and a userTenants key only in mode tenants; in mode none neither happens.
C3_GroupsMappedOneWay ==
    /\ (lastCall.phase = "create_groups" /\ lastCall.op = "role.create")
          => map_groups_to = "roles"
    /\ lastCall.op = "tenant.create" => map_groups_to = "tenants"
    /\ \A i \in 1..Len(user_batch) :
          /\ map_groups_to # "roles" => user_batch[i].roleNames = BaseRoles(users_data[i])
          /\ map_groups_to # "tenants" => ~user_batch[i].has_userTenants

C3_Witness ==
    /\ map_groups_to = "tenants"
    /\ pc = "batch_post"
    /\ Len(user_batch) > 0
    /\ users_data[1].groups # << >>
    /\ user_batch[1].has_userTenants
    /\ user_batch[1].roleNames = BaseRoles(users_data[1])

\* C4: a failed create is skipped and not retried, and the run continues.
\* When a create method ends after one of its creates failed, a create has
\* been attempted for every entity that was missing; inside a loop no entity
\* still to iterate has been attempted already; and when main() is done,
\* every later phase has run.
C4_CreateFailureSkipped ==
    /\ (LoopFinished /\ createFailed) => missing \subseteq attempted
    /\ pc \in {"roles_loop", "groups_loop"} => unique \cap attempted = {}
    /\ pc = "done" =>
          /\ {"create_roles", "create_attrs", "process_users"} \subseteq phasesRun
          /\ map_groups_to \in {"tenants", "roles"} => "create_groups" \in phasesRun

C4_Witness ==
    /\ pc = "roles_loop"
    /\ unique = {}
    /\ createFailed
    /\ Cardinality(missing) >= 2
    /\ missing \subseteq attempted
    /\ lastCall.op = "role.create"
    /\ lastCall.ok

\* C5: no exception propagates out of batch_create_users: whenever the method
\* has ended it has returned to process_users.
C5_NoExceptionEscapes ==
    pc = "batch_returned" => batchResult.kind # "raise"

\* C7: in every built user record, a user with a username and a distinct
\* email has additionalIdentifiers = [email]; a user with an email and no
\* username has an empty additionalIdentifiers and the email as loginId.
C7_AdditionalIdentifiers ==
    \A i \in 1..Len(user_batch) :
        LET u == users_data[i]
            b == user_batch[i]
        IN  /\ (u.username # NoneVal /\ u.email # NoneVal /\ u.username # u.email)
                  => b.additionalIdentifiers = << u.email >>
            /\ (u.username = NoneVal /\ u.email # NoneVal)
                  => (b.additionalIdentifiers = << >> /\ b.loginId = u.email)

C7_Witness ==
    /\ pc = "batch_post"
    /\ Len(user_batch) = 2
    /\ users_data[1].username # NoneVal
    /\ user_batch[1].additionalIdentifiers = << users_data[1].email >>
    /\ users_data[2].username = NoneVal
    /\ user_batch[2].additionalIdentifiers = << >>
    /\ user_batch[2].loginId = users_data[2].email

\* C10: main() runs role creation, then group creation (tenants/roles only),
\* then custom-attribute creation, then the user upload.  A create call is
\* never issued once a user batch has been posted, a call of one phase is
\* issued only when exactly the earlier phases have been entered, and a batch
\* is posted only after all create phases.
C10_PhaseOrder ==
    /\ lastCall.op \in CreateOps => ~batchIssued
    /\ lastCall.phase = "create_roles" => phasesRun = {"create_roles"}
    /\ lastCall.phase = "create_groups" =>
          /\ phasesRun = {"create_roles", "create_groups"}
          /\ map_groups_to \in {"tenants", "roles"}
    /\ lastCall.phase = "create_attrs" =>
          /\ {"create_roles", "create_attrs"} \subseteq phasesRun
          /\ "process_users" \notin phasesRun
          /\ ("create_groups" \in phasesRun) = (map_groups_to \in {"tenants", "roles"})
    /\ lastCall.phase = "process_users" =>
          /\ {"create_roles", "create_attrs", "process_users"} \subseteq phasesRun
          /\ ("create_groups" \in phasesRun) = (map_groups_to \in {"tenants", "roles"})
          /\ pc \in {"deactivate_loop", "batch_returned"}

C10_Witness ==
    /\ lastCall.op = "user.create.batch"
    /\ batchIssued
    /\ phasesRun = {"create_roles", "create_groups", "create_attrs", "process_users"}
    /\ roles_dst # {}
    /\ tenants_dst # {}

\* C11: in mode tenants, when every destination call of the run has
\* succeeded and a user batch has just been submitted, every tenantId in the
\* userTenants of a submitted user whose groups are groups of the realm file
\* is the id of a tenant present at the destination.
C11_UserTenantsExist ==
    (map_groups_to = "tenants" /\ lastCall.op = "user.create.batch" /\ tenant_sync.ok) =>
        \A i \in 1..Len(user_batch) :
            (\A k \in 1..Len(users_data[i].groups) :
                 users_data[i].groups[k] \in tenant_sync.paths) =>
                \A k \in 1..Len(user_batch[i].userTenants) :
                    user_batch[i].userTenants[k] \in tenants_dst

----------------------------------------------------------------------------
(* Properties of process_credentials (SpecCred) *)

IsPbkdf2(c) == c.algorithm # NoneVal /\ StartsWith(c.algorithm, Pbkdf2Str)
IsArgon2(c) == c.algorithm = Argon2Str

\* the entries at which the scan can end: password entries whose algorithm is
\* absent, pbkdf2* or argon2
StopIndexes(creds) ==
    { i \in 1..Len(creds) :
        /\ creds[i].type = "password"
        /\ (creds[i].algorithm = NoneVal \/ IsPbkdf2(creds[i]) \/ IsArgon2(creds[i])) }

PasswordIndexes(creds) == { i \in 1..Len(creds) : creds[i].type = "password" }

Least(S) == CHOOSE i \in S : \A j \in S : i <= j

\* the characters of s up to its first "-"
RECURSIVE UpToHyphen(_)
UpToHyphen(s) ==
    IF s = << >> \/ Head(s) = "-" THEN << >> ELSE << Head(s) >> \o UpToHyphen(Tail(s))

\* what one entry translates to
DescriptorOf(c) ==
    IF c.algorithm = NoneVal THEN CredentialError
    ELSE IF IsPbkdf2(c) THEN Pbkdf2Descriptor(c)
    ELSE IF IsArgon2(c) THEN Argon2Descriptor(c)
    ELSE NoCredential

\* C6: when the entry the scan ends at has algorithm pbkdf2-<variant>, the
\* result is a pbkdf2 descriptor whose type is the segment after the first
\* hyphen; for the bare algorithm pbkdf2 the type is sha1.
C6_Pbkdf2Variant ==
    (cpc = "returned" /\ StopIndexes(credentials) # {}) =>
        LET alg == credentials[Least(StopIndexes(credentials))].algorithm
        IN  /\ StartsWith(alg, Pbkdf2Str \o << "-" >>) =>
                  /\ hashed_password.kind = "pbkdf2"
                  /\ hashed_password.type =
                        UpToHyphen(SubSeq(alg, Len(Pbkdf2Str) + 2, Len(alg)))
            /\ alg = Pbkdf2Str =>
                  /\ hashed_password.kind = "pbkdf2"
                  /\ hashed_password.type = Sha1Str

C6_Witness ==
    /\ cpc = "returned"
    /\ Len(credentials) = 1
    /\ credentials[1].algorithm = Pbkdf2Str \o << "-", "s", "-" >>
    /\ hashed_password.kind = "pbkdf2"
    /\ hashed_password.type = << "s" >>

\* C8 as stated: the result is determined by the first entry of type password
\* alone -- its descriptor if its algorithm is pbkdf2*/argon2, no credential
\* otherwise -- and by no later entry.
C8_FirstPasswordOnly ==
    cpc = "returned" =>
        IF PasswordIndexes(credentials) = {} THEN hashed_password = NoCredential
        ELSE hashed_password = DescriptorOf(credentials[Least(PasswordIndexes(credentials))])

\* C8 amended: the result is determined by the first password entry whose
\* algorithm is pbkdf2*/argon2 (or absent, where the call raises) and by no
\* later entry; password entries with another algorithm before it are
\* passed over; without such an entry there is no credential.
C8_FirstSupportedPassword ==
    cpc = "returned" =>
        IF StopIndexes(credentials) = {} THEN hashed_password = NoCredential
        ELSE hashed_password = DescriptorOf(credentials[Least(StopIndexes(credentials))])

C8_Witness ==
    /\ cpc = "returned"
    /\ Len(credentials) = 2
    /\ credentials[1].type = "password"
    /\ credentials[1].algorithm = BcryptStr
    /\ credentials[2].type = "password"
    /\ credentials[2].algorithm = Pbkdf2Str
    /\ hashed_password.kind = "pbkdf2"

DefaultMemoryValue  == 7168
DefaultThreadsValue == 1

\* the full numeric value of a source field given plain or in a one-element list
RECURSIVE FullNumeric(_)
FullNumeric(x) ==
    CASE x.k = "int"  -> x
      [] x.k = "str"  -> PyInt(ParseDigits(x.v))
      [] x.k = "list" -> FullNumeric(x.v[1])
      [] OTHER        -> x

NumericOrDefault(x, d) == IF x = Missing THEN PyInt(d) ELSE FullNumeric(x)

Wrapped(x) == x.k = "list" /\ Len(x.v) = 1

\* C9 as stated: for an argon2 entry, iterations, memory and threads are 3,
\* 7168 and 1 when unspecified and otherwise the full numeric value of the
\* source field, given plain or wrapped in a one-element list.
C9_Argon2FullValues ==
    (cpc = "returned" /\ StopIndexes(credentials) # {}) =>
        LET c == credentials[Least(StopIndexes(credentials))]
        IN  IsArgon2(c) =>
               /\ hashed_password.kind = "argon2"
               /\ hashed_password.iterations =
                     NumericOrDefault(c.hashIterations, DefaultIterations)
               /\ hashed_password.memory = NumericOrDefault(c.memory, DefaultMemoryValue)
               /\ hashed_password.threads =
                     NumericOrDefault(c.parallelism, DefaultThreadsValue)

\* C9 amended: for an argon2 entry whose memory and parallelism are each
\* unspecified or wrapped in a one-element list, memory and threads are 7168
\* and 1 when unspecified and otherwise the full numeric value of the list's
\* element; iterations is 3 when unspecified and otherwise hashIterations
\* exactly as the source gives it (it is not unwrapped).
C9_Argon2Wrapped ==
    (cpc = "returned" /\ StopIndexes(credentials) # {}) =>
        LET c == credentials[Least(StopIndexes(credentials))]
        IN  (/\ IsArgon2(c)
             /\ c.memory = Missing \/ Wrapped(c.memory)
             /\ c.parallelism = Missing \/ Wrapped(c.parallelism)) =>
               /\ hashed_password.kind = "argon2"
               /\ hashed_password.iterations =
                     (IF c.hashIterations = Missing THEN PyInt(DefaultIterations)
                      ELSE c.hashIterations)
               /\ hashed_password.memory = NumericOrDefault(c.memory, DefaultMemoryValue)
               /\ hashed_password.threads =
                     NumericOrDefault(c.parallelism, DefaultThreadsValue)

C9_Witness ==
    /\ cpc = "returned"
    /\ Len(credentials) = 1
    /\ IsArgon2(credentials[1])
    /\ credentials[1].memory = PyList(<< Str16 >>)
    /\ credentials[1].parallelism = Missing
    /\ credentials[1].hashIterations = Missing
    /\ hashed_password.kind = "argon2"
    /\ hashed_password.memory = PyInt(16)
    /\ hashed_password.threads = PyInt(1)
    /\ hashed_password.iterations = PyInt(3)

====
